---- MODULE Spec2Model ----
(***************************************************************************)
(* ModeOpt: trajectory rollouts through a mode-selecting GP dynamics       *)
(* wrapper, and the shape/flag handling of the GP conditionals.            *)
(*                                                                         *)
(* One Python call runs at a time.  `op` names the function that is        *)
(* executing ("idle" between calls) and `pc` its position.  Tensors of     *)
(* shape [rows, dim] are sequences of rows; a row's numeric content is     *)
(* one integer in 0 .. ValMod-1.  Python's None is the integer None.       *)
(***************************************************************************)
EXTENDS Integers, Sequences, FiniteSets, TLC

\* ------------------------------------------------------------- bounds
\* longest control sequence / policy that is rolled out
MaxHorizon == 2
\* row contents (means, variances) range over 0 .. ValMod-1
ValMod == 2
\* experts of the mixture handed to ModeOptDynamics
NumExperts == 2

\* tensor dimensions range over 1 .. MaxDim
MaxDim == 2

\* Python's None, where a number or a tensor is optional
None == -1

Vals == 0 .. (ValMod - 1)
OptVals == Vals \cup {None}
Horizons == 0 .. MaxHorizon

\* all tensors with h rows
RECURSIVE RowsOfLen(_)
RowsOfLen(h) ==
    IF h = 0 THEN {<<>>}
    ELSE {Append(s, v) : s \in RowsOfLen(h - 1), v \in Vals}

Dims == 1 .. MaxDim

\* no conditional is being computed / nothing was returned
NoArgs == [fn |-> "none"]
NoOut == [none |-> TRUE]

\* an optional tensor: None, or the rows
NoTensor == [none |-> TRUE, rows |-> <<>>]
Tensor(rows) == [none |-> FALSE, rows |-> rows]

VARIABLES
    op,                 \* the function being executed, "idle" between calls
    pc,                 \* position inside it
    start_state,        \* argument: [1, StateDim] tensor
    start_state_var,    \* argument: optional [1, StateDim] tensor
    control_means,      \* argument of rollout_controls_in_dynamics
    control_vars,       \* argument of rollout_controls_in_dynamics, optional
    policy,             \* argument of rollout_policy_in_dynamics
    horizon,            \* number of loop iterations range() was given
    t,                  \* loop index
    state_means,        \* local: trajectory of state means
    state_vars,         \* local: trajectory of state variances
    control_mean,       \* local: this step's control mean (a row)
    control_var,        \* local: this step's control variance (a row or None)
    next_state,         \* local: what the dynamics call returned
    calls,              \* history: policy queries, dynamics calls and returns
    result,             \* what the function returned to its caller
    error,              \* the exception that left the function, "" if none
    desied_mode,        \* ModeOptDynamics._desied_mode
    mode_dynamics,      \* expert wrapped by ModeOptDynamics._desired_mode_dynamics
    init_dynamics,      \* expert wrapped by ModeOptDynamics.desired_mode_dynamics
    arg_mode,           \* argument of the set_desired_mode call in progress
                        \* (read only while op = "set_desired_mode")
    cond_args,          \* arguments of the conditional being computed
    cond_trace,         \* the tensor operations it has performed so far
    cond_out,           \* shapes of what it returned
    self_policy,        \* TrajectoryOptimiser.policy and its parameter values
    training_loss,      \* ExplorativeTrajectoryOptimiser._training_loss
    dynamics_trainable, \* are the dynamics model's parameters trainable
    dynamics_params,    \* values of the dynamics model's parameters
    frame,              \* the objective function that called the rollout
    entropy,            \* local of the objective: self.policy.entropy()
    expected_integral_costs,    \* local: one running cost per step
    expected_terminal_cost,     \* local
    mve,                \* arguments and locals of mode_variational_expectation
    mode_var_exp,       \* local of the objective
    prob_errors_sum,    \* local of the objective
    euclidean_energy,   \* local of the objective
    objective,          \* the value elbo / objective returns
    loss,               \* the value training_loss() returns
    monitor,            \* training_spec.monitor
    manager,            \* training_spec.manager
    compile_loss_fn,    \* training_spec.compile_loss_fn, "missing" if the
                        \* training spec has no such field
    returned,           \* what optimise returned to its caller
    handed,             \* the variables given to the optimiser's minimize
    iteration,          \* iterations the external optimiser has completed
    opt_trace,          \* history: what optimise and the optimiser have done
    optimisation_result \* local of optimise: what minimize returned

rolloutVars == <<start_state, start_state_var, control_means, control_vars,
                 policy, horizon, t, state_means, state_vars, control_mean,
                 control_var, next_state, calls, result>>
modelVars == <<desied_mode, mode_dynamics, init_dynamics>>
condVars == <<cond_args, cond_trace, cond_out>>
optimiserVars == <<self_policy, training_loss, dynamics_trainable, dynamics_params>>
objVars == <<frame, entropy, expected_integral_costs, expected_terminal_cost,
             mve, mode_var_exp, prob_errors_sum, euclidean_energy, objective, loss>>
optVars == <<monitor, manager, compile_loss_fn, handed, iteration, opt_trace,
             optimisation_result, returned>>
trajOptVars == <<optimiserVars, objVars, optVars>>
vars == <<op, pc, error, rolloutVars, modelVars, arg_mode, condVars, trajOptVars>>

\* ------------------------------------------------ SVGPDynamics (callee)
\* Variance of an optional control variance: an omitted one is a delta
\* distribution.
InputVar(cv) == IF cv = None THEN 0 ELSE cv

\* One-step prediction of the dynamics wrapping expert k.  The numbers stand
\* for the GP posterior: a function of the expert and of all four inputs.
SVGPDynamics(k, sm, cm, sv, cv) ==
    [mean |-> (sm + cm + k + 1) % ValMod,
     var  |-> (InputVar(sv) + InputVar(cv) + sm * cm + k) % ValMod]

\* ModeOptDynamics.call: delegates to self._desired_mode_dynamics, passing
\* the variances through unchanged.
CallUsesConstructorDynamics(sm, cm, sv, cv) ==
    SVGPDynamics(init_dynamics, sm, cm, sv, cv)
ModeOptDynamicsCall(sm, cm, sv, cv) ==
    SVGPDynamics(mode_dynamics, sm, cm, sv, cv)

\* ------------------------------------------------ policy (callee)
\* policy(t): the control distribution of step t (0-based)
PolicyAt(p, i) ==
    [mean |-> p.means[i + 1],
     var  |-> IF p.vars.none THEN None ELSE p.vars.rows[i + 1]]

PolicyNumTimeSteps(p) == Len(p.means)

Policies ==
    UNION {
        {[means |-> m, vars |-> NoTensor] : m \in RowsOfLen(h)}
        \cup {[means |-> m, vars |-> Tensor(v)] :
                m \in RowsOfLen(h), v \in RowsOfLen(h)}
        : h \in Horizons}

NoPolicy == [means |-> <<>>, vars |-> NoTensor]

\* ------------------------------------------------ history records
Event(kind, i, sm, cm, sv, cv) ==
    [kind |-> kind, t |-> i, sm |-> sm, cm |-> cm, sv |-> sv, cv |-> cv]

\* ------------------------------------------------ rollouts.py
\* tf.zeros((1, start_state.shape[1])) when start_state_var is None
DefaultStateVar(sv) == IF sv = None THEN <<0>> ELSE <<sv>>

\* state_means[-1:, :]: the newest row of a trajectory
LastRowIsFirstRow(traj) == traj[1]
LastRow(traj) == traj[Len(traj)]

\* for t in range(horizon)
LoopStopsOneShort(i, h) == i + 1 < h
LoopContinues(i, h) == i < h

\* control_vars[t : t + 1, :] if control_vars is not None else None
ControlVarAtCopiesMean(cvs, i) ==
    IF cvs.none THEN control_means[i + 1] ELSE cvs.rows[i + 1]
ControlVarAt(cvs, i) == IF cvs.none THEN None ELSE cvs.rows[i + 1]

\* tf.concat([trajectory, next_row], 0)
ConcatKeepsNewest(traj, row) == <<row>>
ConcatPrepends(traj, row) == <<row>> \o traj
Concat(traj, row) == Append(traj, row)

\* rollout_controls_in_dynamics as a function of its arguments: the
\* trajectories after the loop has run from step i
RECURSIVE ControlsLoop(_, _, _, _, _)
ControlsLoop(means, vrs, cms, cvs, i) ==
    IF ~LoopContinues(i, Len(cms)) THEN [means |-> means, vars |-> vrs]
    ELSE LET nxt == ModeOptDynamicsCall(LastRow(means), cms[i + 1],
                                        LastRow(vrs), ControlVarAt(cvs, i))
         IN ControlsLoop(Concat(means, nxt.mean), Concat(vrs, nxt.var),
                         cms, cvs, i + 1)

rollout_controls_in_dynamics(s0, sv0, cms, cvs) ==
    ControlsLoop(<<s0>>, DefaultStateVar(sv0), cms, cvs, 0)

ClearLocals ==
    /\ start_state' = <<>>
    /\ start_state_var' = None
    /\ control_means' = <<>>
    /\ control_vars' = NoTensor
    /\ policy' = NoPolicy
    /\ horizon' = 0
    /\ t' = 0
    /\ state_means' = <<>>
    /\ state_vars' = <<>>
    /\ control_mean' = None
    /\ control_var' = None
    /\ next_state' = [mean |-> None, var |-> None]
    /\ calls' = <<>>
    /\ result' = [none |-> TRUE, means |-> <<>>, vars |-> <<>>]

\* rollout_controls_in_dynamics, lines 28-33: entry up to the loop
RC_Begin ==
    /\ op = "idle"
    /\ \E s0 \in Vals, sv0 \in OptVals, h \in Horizons :
         \E cm \in RowsOfLen(h), cv \in {NoTensor} \cup {Tensor(v) : v \in RowsOfLen(h)} :
            /\ start_state' = <<s0>>
            /\ start_state_var' = sv0
            /\ control_means' = cm
            /\ control_vars' = cv
            /\ horizon' = Len(cm)
            /\ state_means' = <<s0>>
            /\ state_vars' = DefaultStateVar(sv0)
    /\ op' = "rollout_controls_in_dynamics"
    /\ pc' = "loop"
    /\ t' = 0
    /\ UNCHANGED <<policy, control_mean, control_var, next_state, calls, result,
                   modelVars, arg_mode, error, condVars>>
    /\ UNCHANGED trajOptVars

\* lines 34-39: next iteration, slice this step's control
RC_Loop ==
    /\ op = "rollout_controls_in_dynamics"
    /\ pc = "loop"
    /\ LoopContinues(t, horizon)
    /\ control_mean' = control_means[t + 1]
    /\ control_var' = ControlVarAt(control_vars, t)
    /\ pc' = "call"
    /\ UNCHANGED <<op, start_state, start_state_var, control_means, control_vars,
                   policy, horizon, t, state_means, state_vars, next_state,
                   calls, result, modelVars, arg_mode, error, condVars>>
    /\ UNCHANGED trajOptVars

\* lines 40-42 / 65-67: the dynamics call is issued with the last rows
CallDynamics ==
    /\ op \in {"rollout_controls_in_dynamics", "rollout_policy_in_dynamics"}
    /\ pc = "call"
    /\ calls' = Append(calls, Event("dynamics", t, LastRow(state_means), control_mean,
                                     LastRow(state_vars), control_var))
    /\ pc' = "in_dynamics"
    /\ UNCHANGED <<op, start_state, start_state_var, control_means, control_vars,
                   policy, horizon, t, state_means, state_vars, control_mean,
                   control_var, next_state, result, modelVars, arg_mode, error, condVars>>
    /\ UNCHANGED trajOptVars

\* the dynamics call returns the next-state belief
DynamicsReturns ==
    /\ op \in {"rollout_controls_in_dynamics", "rollout_policy_in_dynamics"}
    /\ pc = "in_dynamics"
    /\ LET c == calls[Len(calls)]
           r == ModeOptDynamicsCall(c.sm, c.cm, c.sv, c.cv)
       IN /\ next_state' = r
          /\ calls' = Append(calls, Event("returned", t, r.mean, None, r.var, None))
    /\ pc' = "concat"
    /\ UNCHANGED <<op, start_state, start_state_var, control_means, control_vars,
                   policy, horizon, t, state_means, state_vars, control_mean,
                   control_var, result, modelVars, arg_mode, error, condVars>>
    /\ UNCHANGED trajOptVars

\* the dynamics call raises (a failed factorisation inside the GP
\* conditional); the rollout has no handler, so the exception leaves it
DynamicsRaises ==
    /\ op \in {"rollout_controls_in_dynamics", "rollout_policy_in_dynamics"}
    /\ pc = "in_dynamics"
    /\ pc' = "raised"
    /\ error' = "InvalidArgumentError"
    /\ UNCHANGED <<op, rolloutVars, modelVars, arg_mode, condVars>>
    /\ UNCHANGED trajOptVars

\* lines 43-44 / 68-69: extend both trajectories by concatenation
ConcatStep ==
    /\ op \in {"rollout_controls_in_dynamics", "rollout_policy_in_dynamics"}
    /\ pc = "concat"
    /\ state_means' = Concat(state_means, next_state.mean)
    /\ state_vars' = Concat(state_vars, next_state.var)
    /\ t' = t + 1
    /\ pc' = "loop"
    /\ UNCHANGED <<op, start_state, start_state_var, control_means, control_vars,
                   policy, horizon, control_mean, control_var, next_state, calls,
                   result, modelVars, arg_mode, error, condVars>>
    /\ UNCHANGED trajOptVars

\* line 45 / 70: range() is exhausted, return (state_means, state_vars)
RolloutReturn ==
    /\ op \in {"rollout_controls_in_dynamics", "rollout_policy_in_dynamics"}
    /\ pc = "loop"
    /\ ~LoopContinues(t, horizon)
    /\ result' = [none |-> FALSE, means |-> state_means, vars |-> state_vars]
    /\ pc' = "returned"
    /\ UNCHANGED <<op, start_state, start_state_var, control_means, control_vars,
                   policy, horizon, t, state_means, state_vars, control_mean,
                   control_var, next_state, calls, modelVars, arg_mode, error, condVars>>
    /\ UNCHANGED trajOptVars

\* rollout_policy_in_dynamics, lines 58-62: entry up to the loop
RP_Begin ==
    /\ op = "idle"
    /\ \E s0 \in Vals, sv0 \in OptVals, p \in Policies :
            /\ start_state' = <<s0>>
            /\ start_state_var' = sv0
            /\ policy' = p
            /\ horizon' = PolicyNumTimeSteps(p)
            /\ state_means' = <<s0>>
            /\ state_vars' = DefaultStateVar(sv0)
    /\ op' = "rollout_policy_in_dynamics"
    /\ pc' = "loop"
    /\ t' = 0
    /\ UNCHANGED <<control_means, control_vars, control_mean, control_var,
                   next_state, calls, result, modelVars, arg_mode, error, condVars>>
    /\ UNCHANGED trajOptVars

\* lines 63-64: next iteration, query the policy at t
RP_Loop ==
    /\ op = "rollout_policy_in_dynamics"
    /\ pc = "loop"
    /\ LoopContinues(t, horizon)
    /\ LET c == PolicyAt(policy, t)
       IN /\ control_mean' = c.mean
          /\ control_var' = c.var
          /\ calls' = Append(calls, Event("policy", t, None, c.mean, None, c.var))
    /\ pc' = "call"
    /\ UNCHANGED <<op, start_state, start_state_var, control_means, control_vars,
                   policy, horizon, t, state_means, state_vars, next_state,
                   result, modelVars, arg_mode, error, condVars>>
    /\ UNCHANGED trajOptVars

\* ------------------------------------------------ multimodal.py
\* the mode indices a caller may pass: two beyond either end of the experts
ModeArgs == (0 - NumExperts - 1) .. (NumExperts + 1)

\* experts_list[i] raises IndexError outside -len .. len-1
IndexOk(i) == (0 - NumExperts) <= i /\ i < NumExperts

\* experts_list[i]: Python list indexing, a negative index counts from the end
ExpertsList(i) == IF i >= 0 THEN i ELSE NumExperts + i

\* line 69: assert desired_mode < self.mosvgpe.num_experts
ModeAssertionOffByOne(d) == d <= NumExperts
ModeAssertion(d) == d < NumExperts

\* @property desired_mode (lines 63-65)
desired_mode == desied_mode

\* set_desired_mode (lines 67-72).  The mixture given to the constructor is
\* the one line 69 reads.  Line 70 stores the index before line 71 looks
\* the expert up, so an IndexError leaves the stored index behind.
SetDesiredMode(d) ==
    /\ arg_mode' = d
    /\ IF ~ModeAssertion(d)
       THEN /\ pc' = "raised"
            /\ error' = "AssertionError"
            /\ UNCHANGED <<desied_mode, mode_dynamics>>
       ELSE /\ desied_mode' = d
            /\ IF IndexOk(d)
               THEN /\ mode_dynamics' = ExpertsList(d)
                    /\ pc' = "returned"
                    /\ error' = ""
               ELSE /\ pc' = "raised"
                    /\ error' = "IndexError"
                    /\ UNCHANGED mode_dynamics

set_desired_mode ==
    /\ op = "idle"
    /\ op' = "set_desired_mode"
    /\ \E d \in ModeArgs : SetDesiredMode(d)
    /\ UNCHANGED <<rolloutVars, init_dynamics, condVars>>
    /\ UNCHANGED trajOptVars

\* ModeOptDynamics.call (lines 85-94), called directly with one-row beliefs;
\* the variances are optional
call ==
    /\ op = "idle"
    /\ op' = "call"
    /\ pc' = "returned"
    /\ \E sm \in Vals, cm \in Vals, sv \in OptVals, cv \in OptVals :
         /\ state_means' = <<sm>>
         /\ state_vars' = <<sv>>
         /\ control_mean' = cm
         /\ control_var' = cv
         /\ next_state' = ModeOptDynamicsCall(sm, cm, sv, cv)
    /\ UNCHANGED <<start_state, start_state_var, control_means, control_vars,
                   policy, horizon, t, calls, result, modelVars, arg_mode, error, condVars>>
    /\ UNCHANGED trajOptVars

\* ------------------------------------------------ conditionals.py
\* lines 76-79: the configurations uncertain_conditional refuses
FullCovAndFullOutputCov(a) == a.full_cov /\ a.full_output_cov
FullCovUnsupported(a) == a.full_cov

UncertainArgs ==
    [fn : {"uncertain_conditional"}, full_cov : BOOLEAN, full_output_cov : BOOLEAN,
     white : BOOLEAN, zero_mean : BOOLEAN, N : Dims, D : Dims]

\* uncertain_conditional is entered with its keyword arguments
UC_Begin ==
    /\ op = "idle"
    /\ op' = "uncertain_conditional"
    /\ pc' = "check"
    /\ cond_args' \in UncertainArgs
    /\ UNCHANGED <<cond_trace, cond_out, error, rolloutVars, modelVars, arg_mode>>
    /\ UNCHANGED trajOptVars

\* lines 76-79: if full_cov: raise NotImplementedError
UC_Check ==
    /\ op = "uncertain_conditional"
    /\ pc = "check"
    /\ IF FullCovUnsupported(cond_args)
       THEN pc' = "raised" /\ error' = "NotImplementedError"
       ELSE pc' = "kuu" /\ error' = error
    /\ UNCHANGED <<op, condVars, rolloutVars, modelVars, arg_mode>>
    /\ UNCHANGED trajOptVars

\* lines 81-93: psi1, Kuu with the default jitter, and its Cholesky factor,
\* which fails when Kuu is not positive definite
UC_Kuu ==
    /\ op = "uncertain_conditional"
    /\ pc = "kuu"
    /\ cond_trace' = cond_trace \o <<"expectation", "Kuu", "cholesky">>
    /\ \/ pc' = "moments" /\ error' = error
       \/ pc' = "raised" /\ error' = "InvalidArgumentError"
    /\ UNCHANGED <<op, cond_args, cond_out, rolloutVars, modelVars, arg_mode>>
    /\ UNCHANGED trajOptVars

\* lines 95-136: whitening, fmean, psi0, psi2 and the mean-function terms
UC_Moments ==
    /\ op = "uncertain_conditional"
    /\ pc = "moments"
    /\ cond_trace' =
         cond_trace
         \o (IF cond_args.white THEN <<>>
             ELSE <<"triangular_solve", "triangular_solve">>)
         \o <<"triangular_solve", "matmul", "expectation", "expectation",
              "triangular_solve", "triangular_solve", "matmul">>
         \o (IF cond_args.zero_mean THEN <<>>
             ELSE <<"expectation", "expectation", "triangular_solve",
                    "expectation">>)
    /\ pc' = "variance"
    /\ UNCHANGED <<op, cond_args, cond_out, error, rolloutVars, modelVars, arg_mode>>
    /\ UNCHANGED trajOptVars

\* lines 138-159: shape of fvar, one formula per value of full_output_cov
FvarShape(a) ==
    IF a.full_output_cov THEN <<a.N, a.D, a.D>> ELSE <<a.N, a.D>>

\* lines 138-161: fvar and return fmean, fvar
UC_Variance ==
    /\ op = "uncertain_conditional"
    /\ pc = "variance"
    /\ cond_out' = [none |-> FALSE,
                    fmean |-> <<cond_args.N, cond_args.D>>,
                    fvar |-> FvarShape(cond_args)]
    /\ pc' = "returned"
    /\ UNCHANGED <<op, cond_args, cond_trace, error, rolloutVars, modelVars, arg_mode>>
    /\ UNCHANGED trajOptVars

\* shapes of the arguments of base_covariance_conditional; Km1, Km2 and
\* K12 have rank two, for which the transposition of lines 230-249 is the
\* identity
NoShape == [none |-> TRUE, shape |-> <<>>]
Shape(sh) == [none |-> FALSE, shape |-> sh]
Rank2 == {<<a, b>> : a \in Dims, b \in Dims}
Rank3 == {<<a, b, c>> : a \in Dims, b \in Dims, c \in Dims}

CovarianceArgs ==
    [fn : {"base_covariance_conditional"}, Km1 : Rank2, Km2 : Rank2, Lm : Rank2,
     K12 : Rank2, f : Rank2,
     q_sqrt : {NoShape} \cup {Shape(sh) : sh \in Rank2 \cup Rank3}]

\* lines 254-264: the (tensor, symbolic shape) pairs given to assert_shapes
ShapeConstraintsWithoutK12(a) ==
    <<[x |-> a.Km1, s |-> <<"M", "N1">>],
      [x |-> a.Km2, s |-> <<"M", "N2">>],
      [x |-> a.Lm, s |-> <<"M", "M">>],
      [x |-> a.f, s |-> <<"M", "R">>]>>
    \o (IF a.q_sqrt.none THEN <<>>
        ELSE <<[x |-> a.q_sqrt.shape,
                s |-> IF Len(a.q_sqrt.shape) = 2 THEN <<"M", "R">>
                      ELSE <<"R", "M", "M">>]>>)
ShapeConstraints(a) ==
    <<[x |-> a.Km1, s |-> <<"M", "N1">>],
      [x |-> a.Km2, s |-> <<"M", "N2">>],
      [x |-> a.Lm, s |-> <<"M", "M">>],
      [x |-> a.K12, s |-> <<"N1", "N2">>],
      [x |-> a.f, s |-> <<"M", "R">>]>>
    \o (IF a.q_sqrt.none THEN <<>>
        ELSE <<[x |-> a.q_sqrt.shape,
                s |-> IF Len(a.q_sqrt.shape) = 2 THEN <<"M", "R">>
                      ELSE <<"R", "M", "M">>]>>)

\* tf.debugging.assert_shapes (lines 265-271): every tensor has the rank of
\* its symbolic shape and every symbol has one size wherever it occurs
AssertShapes(cs) ==
    /\ \A i \in 1 .. Len(cs) : Len(cs[i].x) = Len(cs[i].s)
    /\ \A i \in 1 .. Len(cs), j \in 1 .. Len(cs) :
         \A k \in 1 .. Len(cs[i].s), l \in 1 .. Len(cs[j].s) :
            cs[i].s[k] = cs[j].s[l] => cs[i].x[k] = cs[j].x[l]

\* size of a broadcast dimension, 0 when the two sizes are incompatible
Bc(a, b) == IF a = b THEN a ELSE IF a = 1 THEN b ELSE IF b = 1 THEN a ELSE 0

\* lines 273-337: shape of the covariance the tensor operations produce,
\* [ok |-> FALSE] when one of them rejects its operands
CovarianceShape(a) ==
    LET m1 == a.Km1[1]
        n1 == a.Km1[2]
        m2 == a.Km2[1]
        n2 == a.Km2[2]
        Mf == a.f[1]
        Rf == a.f[2]
        solves == /\ a.Lm[1] = a.Lm[2]
                  /\ a.Lm[2] = m1
                  /\ a.Lm[2] = m2
        base == /\ a.K12[1] \in {n1, 1}
                /\ a.K12[2] \in {n2, 1}
        q == a.q_sqrt.shape
        fail == [ok |-> FALSE, shape |-> <<>>]
    IN IF ~(solves /\ base) THEN fail
       ELSE IF a.q_sqrt.none THEN [ok |-> TRUE, shape |-> <<Rf, n1, n2>>]
       ELSE IF Len(q) = 2
            THEN IF Bc(q[1], m1) # 0 /\ Bc(q[2], Rf) # 0
                 THEN [ok |-> TRUE, shape |-> <<Bc(q[2], Rf), n1, n2>>]
                 ELSE fail
       ELSE IF Len(q) = 3
            THEN IF /\ m1 \in {Mf, 1}
                    /\ m2 \in {Mf, 1}
                    /\ q[2] = Mf
                    /\ Bc(q[1], Rf) # 0
                 THEN [ok |-> TRUE, shape |-> <<Bc(q[1], Rf), n1, n2>>]
                 ELSE fail
       ELSE fail

\* base_covariance_conditional is entered with its tensors
BCC_Begin ==
    /\ op = "idle"
    /\ op' = "base_covariance_conditional"
    /\ pc' = "assert_shapes"
    /\ cond_args' \in CovarianceArgs
    /\ UNCHANGED <<cond_trace, cond_out, error, rolloutVars, modelVars, arg_mode>>
    /\ UNCHANGED trajOptVars

\* lines 254-271: the shape assertion
BCC_AssertShapes ==
    /\ op = "base_covariance_conditional"
    /\ pc = "assert_shapes"
    /\ cond_trace' = Append(cond_trace, "assert_shapes")
    /\ IF AssertShapes(ShapeConstraints(cond_args))
       THEN pc' = "compute" /\ error' = error
       ELSE pc' = "raised" /\ error' = "ValueError"
    /\ UNCHANGED <<op, cond_args, cond_out, rolloutVars, modelVars, arg_mode>>
    /\ UNCHANGED trajOptVars

\* lines 273-337: projections, base covariance, q_sqrt correction, return
BCC_Compute ==
    /\ op = "base_covariance_conditional"
    /\ pc = "compute"
    /\ cond_trace' = cond_trace \o <<"triangular_solve", "triangular_solve", "matmul">>
    /\ LET r == CovarianceShape(cond_args)
       IN IF r.ok
          THEN /\ cond_out' = [none |-> FALSE, fcov |-> r.shape]
               /\ pc' = "returned"
               /\ error' = error
          ELSE /\ cond_out' = cond_out
               /\ pc' = "raised"
               /\ error' = "InvalidArgumentError"
    /\ UNCHANGED <<op, cond_args, rolloutVars, modelVars, arg_mode>>
    /\ UNCHANGED trajOptVars

\* ------------------------------------- conditionals.py: covariance values
\* exact quotients, not reduced: n / d
Frac(n, d) == [n |-> n, d |-> d]
FracMul(a, b) == Frac(a.n * b.n, a.d * b.d)
FracAdd(a, b) == Frac(a.n * b.d + b.n * a.d, a.d * b.d)
FracSub(a, b) == Frac(a.n * b.d - b.n * a.d, a.d * b.d)

Abs(x) == IF x < 0 THEN 0 - x ELSE x

\* kernel(X, Y) of two one-row inputs: a stationary kernel, largest at
\* distance zero; its values are squares, so that a 1 x 1 kernel matrix has
\* a whole-number Cholesky factor
Kernel(x, y) == (ValMod - Abs(x - y)) * (ValMod - Abs(x - y))

\* tf.linalg.cholesky of the 1 x 1 matrix [k]
Cholesky(k) == CHOOSE r \in 0 .. k : r * r = k

\* tf.linalg.triangular_solve(Lm, K, lower=True): Lm^-1 K
TriangularSolve(Lm, K) == Frac(K, Lm)

\* base_covariance_conditional (lines 273-337) on the values of its
\* arguments; q_sqrt is None or the rank-3 factor's content.  The
\* back-substitution for the unwhitened case is commented out in the source
\* (lines 293-296) and f is read for its shape only (lines 223, 226).
BaseCovarianceUnwhitens(Km1, Km2, Lm, K12, f, q_sqrt, white) ==
    LET A1 == IF white THEN TriangularSolve(Lm, Km1)
              ELSE TriangularSolve(Lm * Lm, Km1)
        A2 == IF white THEN TriangularSolve(Lm, Km2)
              ELSE TriangularSolve(Lm * Lm, Km2)
        fcov == FracSub(Frac(K12, 1), FracMul(A1, A2))
    IN IF q_sqrt = None THEN fcov
       ELSE FracAdd(fcov, FracMul(FracMul(Frac(q_sqrt, 1), A1),
                                  FracMul(Frac(q_sqrt, 1), A2)))
BaseCovariance(Km1, Km2, Lm, K12, f, q_sqrt, white) ==
    LET A1 == TriangularSolve(Lm, Km1)
        A2 == TriangularSolve(Lm, Km2)
        fcov == FracSub(Frac(K12, 1), FracMul(A1, A2))
    IN IF q_sqrt = None THEN fcov
       ELSE FracAdd(fcov, FracMul(FracMul(Frac(q_sqrt, 1), A1),
                                  FracMul(Frac(q_sqrt, 1), A2)))

\* arguments of covariance_conditional: the contents of X1, X2 (one row
\* each), of the M inducing inputs Z, of f and of q_sqrt; f has f_rows rows
CovConditionalArgs ==
    [fn : {"covariance_conditional"}, X1 : Vals, X2 : Vals, Z : Vals, f : Vals,
     q_sqrt : OptVals, white : BOOLEAN, M : Dims, f_rows : Dims]

\* shapes of what covariance_conditional hands to
\* base_covariance_conditional (lines 194-201)
KernelShapes(a) ==
    [fn |-> "base_covariance_conditional",
     Km1 |-> <<a.M, 1>>, Km2 |-> <<a.M, 1>>, Lm |-> <<a.M, a.M>>,
     K12 |-> <<1, 1>>, f |-> <<a.f_rows, 1>>,
     q_sqrt |-> IF a.q_sqrt = None THEN NoShape ELSE Shape(<<1, a.M, a.M>>)]

\* covariance_conditional is entered, directly or through
\* svgp_covariance_conditional (lines 164-173), which passes svgp.q_mu as f
\* and svgp.whiten as white
CC_Begin ==
    /\ op = "idle"
    /\ op' = "covariance_conditional"
    /\ pc' = "kmm"
    /\ cond_args' \in CovConditionalArgs
    /\ UNCHANGED <<cond_trace, cond_out, error, rolloutVars, modelVars, arg_mode>>
    /\ UNCHANGED trajOptVars

\* lines 179-185: K12, Kmm = kernel(Z, Z) and its Cholesky factor, which
\* fails when Kmm is not positive definite
CC_Kmm ==
    /\ op = "covariance_conditional"
    /\ pc = "kmm"
    /\ cond_trace' = cond_trace \o <<"kernel", "kernel", "cholesky">>
    /\ \/ pc' = "base" /\ error' = error
       \/ pc' = "raised" /\ error' = "InvalidArgumentError"
    /\ UNCHANGED <<op, cond_args, cond_out, rolloutVars, modelVars, arg_mode>>
    /\ UNCHANGED trajOptVars

\* lines 189-208 and the base_covariance_conditional they call
CC_Base ==
    /\ op = "covariance_conditional"
    /\ pc = "base"
    /\ LET a == cond_args
           sh == KernelShapes(a)
           r == CovarianceShape(sh)
       IN IF ~AssertShapes(ShapeConstraints(sh))
          THEN /\ cond_trace' = cond_trace \o <<"kernel", "kernel", "assert_shapes">>
               /\ cond_out' = cond_out
               /\ pc' = "raised"
               /\ error' = "ValueError"
          ELSE /\ cond_trace' = cond_trace \o <<"kernel", "kernel", "assert_shapes",
                                 "triangular_solve", "triangular_solve", "matmul">>
               /\ IF r.ok
                  THEN /\ cond_out' =
                            [none |-> FALSE, fcov |-> r.shape,
                             value |-> BaseCovariance(
                                 Kernel(a.Z, a.X1), Kernel(a.Z, a.X2),
                                 Cholesky(Kernel(a.Z, a.Z)), Kernel(a.X1, a.X2),
                                 a.f, a.q_sqrt, a.white)]
                       /\ pc' = "returned"
                       /\ error' = error
                  ELSE /\ cond_out' = cond_out
                       /\ pc' = "raised"
                       /\ error' = "InvalidArgumentError"
    /\ UNCHANGED <<op, cond_args, rolloutVars, modelVars, arg_mode>>
    /\ UNCHANGED trajOptVars

\* base_svgp_conditional is entered
BSC_Begin ==
    /\ op = "idle"
    /\ op' = "base_svgp_conditional"
    /\ pc' = "kzz"
    /\ cond_args' \in [fn : {"base_svgp_conditional"}, N1 : Dims, N2 : Dims]
    /\ UNCHANGED <<cond_trace, cond_out, error, rolloutVars, modelVars, arg_mode>>
    /\ UNCHANGED trajOptVars

\* lines 341-350: K12, Kzz, Kzz += jitter * eye, and the Cholesky factor
BSC_Kzz ==
    /\ op = "base_svgp_conditional"
    /\ pc = "kzz"
    /\ cond_trace' = cond_trace \o <<"kernel", "kernel", "add_jitter", "cholesky">>
    /\ \/ pc' = "project" /\ error' = error
       \/ pc' = "raised" /\ error' = "InvalidArgumentError"
    /\ UNCHANGED <<op, cond_args, cond_out, rolloutVars, modelVars, arg_mode>>
    /\ UNCHANGED trajOptVars

\* lines 354-372: K = K12 - K1z (Kzz - S) Kz2, of shape [N1, N2]
BSC_Project ==
    /\ op = "base_svgp_conditional"
    /\ pc = "project"
    /\ cond_trace' = cond_trace \o <<"kernel", "kernel", "matmul", "matmul", "matmul">>
    /\ cond_out' = [none |-> FALSE, K |-> <<cond_args.N1, cond_args.N2>>]
    /\ pc' = "returned"
    /\ UNCHANGED <<op, cond_args, error, rolloutVars, modelVars, arg_mode>>
    /\ UNCHANGED trajOptVars

\* base_conditional_split is entered with a kernel matrix Kmm of its caller
BCS_Begin ==
    /\ op = "idle"
    /\ op' = "base_conditional_split"
    /\ pc' = "cholesky"
    /\ cond_args' \in [fn : {"base_conditional_split"}, full_cov : BOOLEAN,
                       white : BOOLEAN]
    /\ UNCHANGED <<cond_trace, cond_out, error, rolloutVars, modelVars, arg_mode>>
    /\ UNCHANGED trajOptVars

\* lines 484-487: the Cholesky factor of Kmm as it was given, then a call
\* of base_conditional_with_lm, a name the module neither defines nor
\* imports
BCS_Cholesky ==
    /\ op = "base_conditional_split"
    /\ pc = "cholesky"
    /\ cond_trace' = Append(cond_trace, "cholesky")
    /\ pc' = "raised"
    /\ \/ error' = "InvalidArgumentError"
       \/ error' = "NameError"
    /\ UNCHANGED <<op, cond_args, cond_out, rolloutVars, modelVars, arg_mode>>
    /\ UNCHANGED trajOptVars

\* ------------------------------------------------ gating GP (callees)
\* self.gating_gp.predict_f(input_mean, full_cov=False) for one input row
\* <<state, control>>: the latent gating mean and variance
GatingPredictF(x) ==
    [mean |-> (x[1] + x[2]) % ValMod,
     var  |-> (x[1] * x[2] + 1) % ValMod]

\* gpflow's uncertain_conditional for one input row with variance row v; it
\* reduces to predict_f for a zero input variance
GatingUncertainConditional(x, v) ==
    [mean |-> (x[1] + x[2] + v[1] * x[2]) % ValMod,
     var  |-> (x[1] * x[2] + 1 + v[1] + v[2]) % ValMod]

\* self.gating_gp.likelihood.variational_expectations for one entry: the
\* expected log-likelihood of label y under the latent N(m, v)
VariationalExpectations(m, v, y) == 0 - ((m - y) * (m - y) + v)

\* tf.reduce_sum
RECURSIVE ReduceSum(_)
ReduceSum(xs) == IF xs = <<>> THEN 0 ELSE xs[1] + ReduceSum(Tail(xs))

\* multimodal.py lines 126-151: uncertain_predict_gating, one (mean, var)
\* per row
uncertain_predict_gating(sm, cm, sv, cv) ==
    LET input_mean == [i \in DOMAIN sm |-> <<sm[i], cm[i]>>]
    IN IF sv.none \/ cv.none
       THEN [i \in DOMAIN sm |-> GatingPredictF(input_mean[i])]
       ELSE LET input_var == [i \in DOMAIN sm |-> <<sv.rows[i], cv.rows[i]>>]
            IN [i \in DOMAIN sm |->
                    GatingUncertainConditional(input_mean[i], input_var[i])]

\* line 116: Y = tf.ones(gating_means.shape) * self.desired_mode
PseudoTargetAddsEvaluations(gating_means, d) ==
    [i \in DOMAIN gating_means |-> d + mve.evaluations]
PseudoTargetOnes(gating_means, d) == [i \in DOMAIN gating_means |-> 1]
PseudoTarget(gating_means, d) == [i \in DOMAIN gating_means |-> 1 * d]

\* lines 117-119: the likelihood's variational expectation of every entry
GatingVarExp(gm, gv, Y) ==
    [i \in DOMAIN gm |-> VariationalExpectations(gm[i], gv[i], Y[i])]

\* mode_variational_expectation (lines 96-124) as a function of its
\* arguments and the desired mode
ModeVariationalExpectation(sm, cm, sv, cv) ==
    LET g == uncertain_predict_gating(sm, cm, sv, cv)
        gm == [i \in DOMAIN g |-> g[i].mean]
        gv == [i \in DOMAIN g |-> g[i].var]
    IN ReduceSum(GatingVarExp(gm, gv, PseudoTarget(gm, desired_mode)))

NoMve ==
    [sm |-> <<>>, cm |-> <<>>, sv |-> NoTensor, cv |-> NoTensor,
     gating_means |-> <<>>, gating_vars |-> <<>>, Y |-> <<>>,
     gating_var_exp |-> <<>>, evaluations |-> 0, first |-> 0]

\* a variance tensor of h rows, or None
OptRowsOfLen(h) == {NoTensor} \cup {Tensor([i \in 1 .. h |-> v]) : v \in Vals}

\* mode_variational_expectation is called with beliefs of h time steps
MVE_Begin ==
    /\ op = "idle"
    /\ op' = "mode_variational_expectation"
    /\ pc' = "gating"
    /\ \E h \in Horizons :
         \E sm \in RowsOfLen(h), cm \in RowsOfLen(h),
            sv \in OptRowsOfLen(h), cv \in OptRowsOfLen(h) :
            mve' = [NoMve EXCEPT !.sm = sm, !.cm = cm, !.sv = sv, !.cv = cv]
    /\ UNCHANGED <<error, rolloutVars, modelVars, arg_mode, condVars,
                   optimiserVars, optVars, frame, entropy,
                   expected_integral_costs, expected_terminal_cost,
                   mode_var_exp, prob_errors_sum, euclidean_energy,
                   objective, loss>>

\* lines 111-113: the gating prediction
MVE_Gating ==
    /\ op = "mode_variational_expectation"
    /\ pc = "gating"
    /\ LET g == uncertain_predict_gating(mve.sm, mve.cm, mve.sv, mve.cv)
       IN mve' = [mve EXCEPT !.gating_means = [i \in DOMAIN g |-> g[i].mean],
                             !.gating_vars = [i \in DOMAIN g |-> g[i].var]]
    /\ pc' = "target"
    /\ UNCHANGED <<op, error, rolloutVars, modelVars, arg_mode, condVars,
                   optimiserVars, optVars, frame, entropy,
                   expected_integral_costs, expected_terminal_cost,
                   mode_var_exp, prob_errors_sum, euclidean_energy,
                   objective, loss>>

\* line 116: the pseudo-target
MVE_Target ==
    /\ op = "mode_variational_expectation"
    /\ pc = "target"
    /\ mve' = [mve EXCEPT !.Y = PseudoTarget(mve.gating_means, desired_mode)]
    /\ pc' = "sum"
    /\ UNCHANGED <<op, error, rolloutVars, modelVars, arg_mode, condVars,
                   optimiserVars, optVars, frame, entropy,
                   expected_integral_costs, expected_terminal_cost,
                   mode_var_exp, prob_errors_sum, euclidean_energy,
                   objective, loss>>

\* lines 117-124: variational expectations, their sum, return
MVE_Sum ==
    /\ op = "mode_variational_expectation"
    /\ pc = "sum"
    /\ LET e == GatingVarExp(mve.gating_means, mve.gating_vars, mve.Y)
       IN /\ mve' = [mve EXCEPT !.gating_var_exp = e,
                                !.evaluations = mve.evaluations + 1]
          /\ mode_var_exp' = ReduceSum(e)
    /\ pc' = "returned"
    /\ UNCHANGED <<op, error, rolloutVars, modelVars, arg_mode, condVars,
                   optimiserVars, optVars, frame, entropy,
                   expected_integral_costs, expected_terminal_cost,
                   prob_errors_sum, euclidean_energy, objective, loss>>

\* the caller keeps the score and calls once more with the same arguments
MVE_Again ==
    /\ op = "mode_variational_expectation"
    /\ pc = "returned"
    /\ mve.evaluations = 1
    /\ mve' = [mve EXCEPT !.first = mode_var_exp,
                          !.gating_means = <<>>, !.gating_vars = <<>>,
                          !.Y = <<>>, !.gating_var_exp = <<>>]
    /\ pc' = "gating"
    /\ UNCHANGED <<op, error, rolloutVars, modelVars, arg_mode, condVars,
                   optimiserVars, optVars, frame, entropy,
                   expected_integral_costs, expected_terminal_cost,
                   mode_var_exp, prob_errors_sum, euclidean_energy,
                   objective, loss>>

\* ------------------------------------------------ policy, costs (callees)
\* self.policy.entropy(): entropy of the control distribution, growing with
\* its variances; a policy without variances has none
PolicyEntropy(p) == IF p.vars.none THEN 0 ELSE ReduceSum(p.vars.rows)

\* self.policy(): the whole control sequence, means and variances
PolicyAll(p) == [means |-> p.means, vars |-> p.vars]

\* expected quadratic cost of one belief: x^2 plus the variance
ExpectedQuadratic(m, v) == m * m + InputVar(v)

\* expected_quadratic_costs: one running cost per step over the state and
\* the control of that step, and the terminal cost of the last state
ExpectedIntegralCosts(sms, svs, p) ==
    [i \in 1 .. Len(p.means) |->
        ExpectedQuadratic(sms[i], svs[i])
        + ExpectedQuadratic(p.means[i], PolicyAt(p, i - 1).var)]
ExpectedTerminalCost(sms, svs) ==
    ExpectedQuadratic(LastRow(sms), LastRow(svs))

\* self.dynamics.predict_mode_probability for one step, in tenths
ModeProbability(sm, cm, sv, cv) ==
    (3 + 4 * ((sm + cm + InputVar(sv) + InputVar(cv)) % ValMod)) % 11

\* quadratic_cost_fn(vector, weight_matrix, vector_var=None) for one row
\* <<ds, dc>> and the weight matrix w * I
quadratic_cost_fn(v, w) == w * (v[1] * v[1] + v[2] * v[2])

\* ------------------------------------------------ trajectory_optimisers
\* the objective values below are in thousandths
\* explorative.py line 220: the target mode probability 0.7, in tenths
TargetModeProbability == 7
\* explorative.py line 233: tf.eye(...) * 0.001, in thousandths
LengthWeight == 1
\* a squared difference of tenths, in thousandths
SquaredTenths(d) == 10 * d * d

Elbo == "VariationalTrajectoryOptimiser.elbo"
ModeElbo == "ModeVariationalTrajectoryOptimiser.elbo"
Objective == "ExplorativeTrajectoryOptimiser.objective"
Objectives == {Elbo, ModeElbo, Objective}

\* rollout_policy_in_dynamics as a function of its arguments
RECURSIVE PolicyLoop(_, _, _, _)
PolicyLoop(means, vrs, p, i) ==
    IF ~LoopContinues(i, PolicyNumTimeSteps(p)) THEN [means |-> means, vars |-> vrs]
    ELSE LET c == PolicyAt(p, i)
             nxt == ModeOptDynamicsCall(LastRow(means), c.mean, LastRow(vrs), c.var)
         IN PolicyLoop(Concat(means, nxt.mean), Concat(vrs, nxt.var), p, i + 1)

rollout_policy_in_dynamics(p, s0, sv0) ==
    PolicyLoop(<<s0>>, DefaultStateVar(sv0), p, 0)

\* state_means[:-1, :]
AllButLast(traj) == SubSeq(traj, 1, Len(traj) - 1)

\* variational.py lines 171-173
ElboAddsEntropy(tc, costs, ent) == 0 - tc - ReduceSum(costs) + ent
VariationalElbo(tc, costs, ent) == 0 - tc - ReduceSum(costs) - ent

\* variational.py lines 228-233
ModeVariationalElbo(m, tc, costs, ent) == 0 - m - tc - ReduceSum(costs) + ent

\* explorative.py lines 215-223: summed squared deviation of the mode
\* probabilities from the target
ProbErrorsSum(sms, svs, cms, cvs) ==
    ReduceSum([i \in DOMAIN cms |->
        SquaredTenths(
            ModeProbability(sms[i], cms[i], svs[i],
                            IF cvs.none THEN None ELSE cvs.rows[i])
            - TargetModeProbability)])

\* explorative.py lines 228-243: energy of the differences of consecutive
\* input means
EuclideanEnergy(sms, cms) ==
    ReduceSum([i \in 1 .. (IF Len(cms) = 0 THEN 0 ELSE Len(cms) - 1) |->
        quadratic_cost_fn(<<sms[i + 1] - sms[i], cms[i + 1] - cms[i]>>,
                          LengthWeight)])

\* explorative.py lines 247-261
ExplorativeJ(energy, errors) == energy - errors

\* build_training_loss: training_loss() returns the negated objective
TrainingLoss(value) == 0 - value

\* the call of the rollout inside an objective has no handler
ObjectiveWrapsError(e) == [pc |-> "raised", error |-> "RuntimeError"]
ObjectiveOnError(e) == [pc |-> "raised", error |-> e]

\* the locals of an objective evaluation
ClearObjective ==
    /\ frame' = "none"
    /\ entropy' = 0
    /\ expected_integral_costs' = <<>>
    /\ expected_terminal_cost' = 0
    /\ mve' = NoMve
    /\ mode_var_exp' = 0
    /\ prob_errors_sum' = 0
    /\ euclidean_energy' = 0
    /\ objective' = 0
    /\ loss' = 0

NoResult == [none |-> TRUE, success |-> FALSE, nit |-> 0, fun |-> 0]

\* the locals of an optimise call
ClearOptimise ==
    /\ monitor' = None
    /\ manager' = None
    /\ compile_loss_fn' = "missing"
    /\ returned' = NoResult
    /\ handed' = {}
    /\ iteration' = 0
    /\ opt_trace' = <<>>
    /\ optimisation_result' = NoResult

\* an objective is evaluated from a start belief: elbo lines 157-161 and
\* 204-212, objective lines 162-170; the policy's entropy, then the call of
\* rollout_policy_in_dynamics (rollouts.py lines 58-62)
Obj_Begin ==
    /\ op = "idle"
    /\ \E k \in Objectives, s0 \in Vals, sv0 \in OptVals :
         /\ frame' = k
         /\ start_state' = <<s0>>
         /\ start_state_var' = sv0
         /\ state_means' = <<s0>>
         /\ state_vars' = DefaultStateVar(sv0)
    /\ entropy' = PolicyEntropy(self_policy)
    /\ policy' = self_policy
    /\ horizon' = PolicyNumTimeSteps(self_policy)
    /\ op' = "rollout_policy_in_dynamics"
    /\ pc' = "loop"
    /\ t' = 0
    /\ UNCHANGED <<control_means, control_vars, control_mean, control_var,
                   next_state, calls, result, modelVars, arg_mode, error,
                   condVars, optimiserVars, optVars, expected_integral_costs,
                   expected_terminal_cost, mve, mode_var_exp, prob_errors_sum,
                   euclidean_energy, objective, loss>>

\* the rollout returns its trajectories to the objective
Obj_RolloutReturned ==
    /\ op = "rollout_policy_in_dynamics"
    /\ pc = "returned"
    /\ frame \in Objectives
    /\ op' = frame
    /\ pc' = "costs"
    /\ state_means' = result.means
    /\ state_vars' = result.vars
    /\ UNCHANGED <<start_state, start_state_var, control_means, control_vars,
                   policy, horizon, t, control_mean, control_var, next_state,
                   calls, result, modelVars, arg_mode, error, condVars,
                   trajOptVars>>

\* the rollout raised: the exception passes through the objective and
\* training_loss
Obj_RolloutRaised ==
    /\ op = "rollout_policy_in_dynamics"
    /\ pc = "raised"
    /\ frame \in Objectives
    /\ op' = frame
    /\ LET r == ObjectiveOnError(error)
       IN pc' = r.pc /\ error' = r.error
    /\ UNCHANGED <<rolloutVars, modelVars, arg_mode, condVars, trajOptVars>>

\* variational.py lines 163-169 and 215-221, explorative.py lines 173-179:
\* the expected costs of the rollout.  Line 163 names expected_costs, which
\* the module does not define; it is read as the expected_quadratic_costs
\* the module imports and the other two objectives call.
Obj_Costs ==
    /\ op \in Objectives
    /\ pc = "costs"
    /\ expected_integral_costs' =
          ExpectedIntegralCosts(state_means, state_vars, self_policy)
    /\ expected_terminal_cost' = ExpectedTerminalCost(state_means, state_vars)
    /\ pc' = IF op = Elbo THEN "combine" ELSE "mode"
    /\ UNCHANGED <<op, error, rolloutVars, modelVars, arg_mode, condVars,
                   optimiserVars, optVars, frame, entropy, mve, mode_var_exp,
                   prob_errors_sum, euclidean_energy, objective, loss>>

\* variational.py lines 223-226, explorative.py lines 185-188: the mode
\* variational expectation of the states before the last and the controls
Obj_Mode ==
    /\ op \in {ModeElbo, Objective}
    /\ pc = "mode"
    /\ LET c == PolicyAll(self_policy)
       IN mode_var_exp' =
            ModeVariationalExpectation(AllButLast(state_means), c.means,
                                       Tensor(AllButLast(state_vars)), c.vars)
    /\ pc' = IF op = ModeElbo THEN "combine" ELSE "explore"
    /\ UNCHANGED <<op, error, rolloutVars, modelVars, arg_mode, condVars,
                   optimiserVars, optVars, frame, entropy,
                   expected_integral_costs, expected_terminal_cost, mve,
                   prob_errors_sum, euclidean_energy, objective, loss>>

\* explorative.py lines 215-245: the probability errors, then the energy;
\* tf.concat of line 229 rejects a control variance of None
Obj_Explore ==
    /\ op = Objective
    /\ pc = "explore"
    /\ LET c == PolicyAll(self_policy)
       IN /\ prob_errors_sum' =
                ProbErrorsSum(AllButLast(state_means), AllButLast(state_vars),
                              c.means, c.vars)
          /\ IF c.vars.none
             THEN /\ pc' = "raised"
                  /\ error' = "ValueError"
                  /\ UNCHANGED euclidean_energy
             ELSE /\ pc' = "combine"
                  /\ error' = error
                  /\ euclidean_energy' =
                        EuclideanEnergy(AllButLast(state_means), c.means)
    /\ UNCHANGED <<op, rolloutVars, modelVars, arg_mode, condVars,
                   optimiserVars, optVars, frame, entropy,
                   expected_integral_costs, expected_terminal_cost, mve,
                   mode_var_exp, objective, loss>>

\* variational.py lines 171-174 and 228-244, explorative.py lines 247-274:
\* the value of the objective; training_loss returns its negation
Obj_Combine ==
    /\ op \in Objectives
    /\ pc = "combine"
    /\ LET value ==
            IF op = Elbo
            THEN VariationalElbo(expected_terminal_cost,
                                 expected_integral_costs, entropy)
            ELSE IF op = ModeElbo
            THEN ModeVariationalElbo(mode_var_exp, expected_terminal_cost,
                                     expected_integral_costs, entropy)
            ELSE ExplorativeJ(euclidean_energy, prob_errors_sum)
       IN /\ objective' = value
          /\ loss' = TrainingLoss(value)
    /\ pc' = "returned"
    /\ UNCHANGED <<op, error, rolloutVars, modelVars, arg_mode, condVars,
                   optimiserVars, optVars, frame, entropy,
                   expected_integral_costs, expected_terminal_cost, mve,
                   mode_var_exp, prob_errors_sum, euclidean_energy>>

\* ------------------------------------------------ optimise
\* bound on training_spec.max_iterations
MaxIterations == 2

Optimise == "optimise"

\* the value of an objective as a function of the policy and the start belief
ObjectiveValue(k, p, s0, sv0) ==
    LET r == rollout_policy_in_dynamics(p, s0, sv0)
        c == PolicyAll(p)
        tc == ExpectedTerminalCost(r.means, r.vars)
        costs == ExpectedIntegralCosts(r.means, r.vars, p)
        m == ModeVariationalExpectation(AllButLast(r.means), c.means,
                                        Tensor(AllButLast(r.vars)), c.vars)
    IN IF k = Elbo THEN VariationalElbo(tc, costs, PolicyEntropy(p))
       ELSE IF k = ModeElbo
       THEN ModeVariationalElbo(m, tc, costs, PolicyEntropy(p))
       ELSE ExplorativeJ(EuclideanEnergy(AllButLast(r.means), c.means),
                         ProbErrorsSum(AllButLast(r.means), AllButLast(r.vars),
                                       c.means, c.vars))

\* the errors an evaluation of the objective can end in: a dynamics call of
\* the rollout raising, and line 229 of explorative.py
ObjectiveErrors(k, p) ==
    (IF PolicyNumTimeSteps(p) > 0 THEN {"InvalidArgumentError"} ELSE {})
    \cup (IF k = Objective /\ p.vars.none THEN {"ValueError"} ELSE {})
ObjectiveCanReturn(k, p) == ~(k = Objective /\ p.vars.none)

\* line 98 / 115: gpf.set_trainable(self.dynamics, False)
SetTrainableKeepsFlag(flag) == flag
set_trainable(flag) == FALSE

\* truth value of a monitor or manager object in a condition
Truthy(x) == x # None

\* lines 99-120 / 116-133: the calls the step callback makes, None when
\* there is no callback
CallbackSkipsSave(mon, man) ==
    IF mon # None THEN <<"monitor">>
    ELSE IF man # None THEN <<"save">>
    ELSE <<>>
StepCallback(mon, man) ==
    IF Truthy(mon) /\ Truthy(man) THEN <<"monitor", "save">>
    ELSE IF mon # None THEN <<"monitor">>
    ELSE IF man # None THEN <<"save">>
    ELSE <<>>

\* lines 128-130 / 140-142: the variables given to minimize
HandsDynamicsToo == {"policy", "dynamics"}
HandedVariables == {"policy"}

\* lines 139-149 / 151-154: what optimise does with the result of minimize
RetriesUnlessConverged(r) == IF r.success THEN "return" ELSE "minimize"
AfterMinimize(r) == "return"

\* the start state the loss function in use was built with
LossStart ==
    IF frame = Objective THEN training_loss.rows[1] ELSE start_state[1]

\* the policies an optimiser is constructed with in the optimise runs
ShortPolicies == {p \in Policies : PolicyNumTimeSteps(p) <= 1}

\* the values the external optimiser may give a policy's parameters
PolicyUpdates(p) ==
    {q \in Policies : /\ PolicyNumTimeSteps(q) = PolicyNumTimeSteps(p)
                      /\ q.vars.none = p.vars.none}

UnchangedInOptimise ==
    UNCHANGED <<start_state_var, control_means, control_vars, policy, horizon,
                t, state_means, state_vars, control_mean, control_var,
                next_state, calls, result, modelVars, arg_mode, condVars,
                entropy, expected_integral_costs, expected_terminal_cost, mve,
                mode_var_exp, prob_errors_sum, euclidean_energy>>

\* optimise(start_state, training_spec) is called on one of the optimisers
Opt_Begin ==
    /\ op = "idle"
    /\ op' = Optimise
    /\ pc' = "set_trainable"
    /\ frame' \in Objectives
    /\ \E s0 \in Vals : start_state' = <<s0>>
    /\ monitor' \in {None, 1}
    /\ manager' \in {None, 1}
    /\ compile_loss_fn' \in {"True", "False", "missing"}
    /\ UnchangedInOptimise
    /\ UNCHANGED <<error, optimiserVars, objective, loss, handed, iteration,
                   opt_trace, optimisation_result, returned>>

\* line 98 / 115
Opt_SetTrainable ==
    /\ op = Optimise
    /\ pc = "set_trainable"
    /\ dynamics_trainable' = set_trainable(dynamics_trainable)
    /\ opt_trace' = Append(opt_trace, "set_trainable")
    /\ pc' = "build"
    /\ UnchangedInOptimise
    /\ UNCHANGED <<op, error, start_state, self_policy, training_loss,
                   dynamics_params, frame, objective, loss, monitor, manager,
                   compile_loss_fn, handed, iteration, optimisation_result,
                   returned>>

\* lines 99-124 / 116-138: the callback is defined and the loss function
\* built; training_spec.compile_loss_fn is read when it is built, and the
\* explorative optimiser builds it only when it holds none
Opt_BuildLoss ==
    /\ op = Optimise
    /\ pc = "build"
    /\ IF frame = Objective /\ ~training_loss.none
       THEN /\ pc' = "minimize"
            /\ UNCHANGED <<error, training_loss, opt_trace>>
       ELSE IF compile_loss_fn = "missing"
       THEN /\ pc' = "raised"
            /\ error' = "AttributeError"
            /\ UNCHANGED <<training_loss, opt_trace>>
       ELSE /\ pc' = "minimize"
            /\ error' = error
            /\ opt_trace' = Append(opt_trace, "build_training_loss")
            /\ training_loss' = IF frame = Objective THEN Tensor(start_state)
                                ELSE training_loss
    /\ UnchangedInOptimise
    /\ UNCHANGED <<op, start_state, self_policy, dynamics_trainable,
                   dynamics_params, frame, objective, loss, monitor, manager,
                   compile_loss_fn, handed, iteration, optimisation_result,
                   returned>>

\* lines 128-138 / 140-150: self.optimiser.minimize is invoked with the
\* loss function, the policy's trainable variables and the callback
Opt_Minimize ==
    /\ op = Optimise
    /\ pc = "minimize"
    /\ handed' = HandedVariables
    /\ opt_trace' = Append(opt_trace, "minimize")
    /\ iteration' = 0
    /\ pc' = "eval"
    /\ UnchangedInOptimise
    /\ UNCHANGED <<op, error, start_state, optimiserVars, frame, objective,
                   loss, monitor, manager, compile_loss_fn,
                   optimisation_result, returned>>

\* the external optimiser evaluates the loss function at the current
\* parameter values; an exception of the evaluation leaves minimize and
\* optimise, neither has a handler
Min_Eval ==
    /\ op = Optimise
    /\ pc = "eval"
    /\ opt_trace' = Append(opt_trace, "loss")
    /\ \/ /\ ObjectiveCanReturn(frame, self_policy)
          /\ objective' = ObjectiveValue(frame, self_policy, LossStart, None)
          /\ loss' = TrainingLoss(objective')
          /\ pc' = IF iteration = 0 THEN "decide" ELSE "callback"
          /\ error' = error
       \/ /\ \E e \in ObjectiveErrors(frame, self_policy) : error' = e
          /\ pc' = "raised"
          /\ UNCHANGED <<objective, loss>>
    /\ UnchangedInOptimise
    /\ UNCHANGED <<op, start_state, optimiserVars, frame, monitor, manager,
                   compile_loss_fn, handed, iteration, optimisation_result,
                   returned>>

\* the external optimiser ends an iteration by calling the step callback
Min_Callback ==
    /\ op = Optimise
    /\ pc = "callback"
    /\ opt_trace' = opt_trace \o StepCallback(monitor, manager)
    /\ pc' = "decide"
    /\ UnchangedInOptimise
    /\ UNCHANGED <<op, error, start_state, optimiserVars, frame, objective,
                   loss, monitor, manager, compile_loss_fn, handed, iteration,
                   optimisation_result, returned>>

\* the external optimiser starts another iteration: it gives the variables
\* it was handed new values
Min_Update ==
    /\ op = Optimise
    /\ pc = "decide"
    /\ iteration < MaxIterations
    /\ iteration' = iteration + 1
    /\ opt_trace' = Append(opt_trace, "update")
    /\ IF "policy" \in handed
       THEN self_policy' \in PolicyUpdates(self_policy)
       ELSE UNCHANGED self_policy
    /\ IF "dynamics" \in handed
       THEN dynamics_params' \in Vals
       ELSE UNCHANGED dynamics_params
    /\ pc' = "eval"
    /\ UnchangedInOptimise
    /\ UNCHANGED <<op, error, start_state, training_loss, dynamics_trainable,
                   frame, objective, loss, monitor, manager, compile_loss_fn,
                   handed, optimisation_result, returned>>

\* the external optimiser stops, converged or not, and minimize returns
\* its result object
Min_Return ==
    /\ op = Optimise
    /\ pc = "decide"
    /\ \E success \in BOOLEAN :
         optimisation_result' = [none |-> FALSE, success |-> success,
                                 nit |-> iteration, fun |-> loss]
    /\ pc' = "minimized"
    /\ UnchangedInOptimise
    /\ UNCHANGED <<op, error, start_state, optimiserVars, frame, objective,
                   loss, monitor, manager, compile_loss_fn, handed, iteration,
                   opt_trace, returned>>

\* lines 139-149 / 151-154: the dynamics' trainable flag when optimise
\* returns; restoring it is left as a TODO comment (line 148 / 153)
RestoresTrainable(flag) == TRUE
TrainableOnReturn(flag) == flag

\* lines 139-149 / 151-154: the result is printed and returned
Opt_Return ==
    /\ op = Optimise
    /\ pc = "minimized"
    /\ IF AfterMinimize(optimisation_result) = "return"
       THEN /\ returned' = optimisation_result
            /\ pc' = "returned"
       ELSE /\ returned' = returned
            /\ pc' = "minimize"
    /\ dynamics_trainable' = TrainableOnReturn(dynamics_trainable)
    /\ UnchangedInOptimise
    /\ UNCHANGED <<op, error, start_state, self_policy, training_loss,
                   dynamics_params, frame, objective,
                   loss, monitor, manager, compile_loss_fn, handed, iteration,
                   opt_trace, optimisation_result>>

\* the caller takes the result (or the exception); the frame is gone
Finish ==
    /\ op # "idle"
    /\ pc \in {"returned", "raised"}
    /\ op' = "idle"
    /\ pc' = "idle"
    /\ ClearLocals
    /\ arg_mode' = None
    /\ error' = ""
    /\ cond_args' = NoArgs
    /\ cond_trace' = <<>>
    /\ cond_out' = NoOut
    /\ ClearObjective
    /\ ClearOptimise
    /\ UNCHANGED modelVars
    /\ UNCHANGED optimiserVars

RolloutStep ==
    \/ RC_Loop
    \/ RP_Loop
    \/ CallDynamics
    \/ DynamicsReturns
    \/ DynamicsRaises
    \/ ConcatStep
    \/ RolloutReturn

BaseInit ==
    /\ op = "idle"
    /\ pc = "idle"
    /\ start_state = <<>>
    /\ start_state_var = None
    /\ control_means = <<>>
    /\ control_vars = NoTensor
    /\ policy = NoPolicy
    /\ horizon = 0
    /\ t = 0
    /\ state_means = <<>>
    /\ state_vars = <<>>
    /\ control_mean = None
    /\ control_var = None
    /\ next_state = [mean |-> None, var |-> None]
    /\ calls = <<>>
    /\ result = [none |-> TRUE, means |-> <<>>, vars |-> <<>>]
    \* __init__ (lines 44-48), constructed with desired_mode = 0
    /\ desied_mode = 0
    /\ mode_dynamics = ExpertsList(0)
    /\ init_dynamics = ExpertsList(0)
    /\ cond_args = NoArgs
    /\ cond_trace = <<>>
    /\ cond_out = NoOut
    /\ arg_mode = None
    /\ error = ""
    /\ training_loss = NoTensor
    /\ dynamics_trainable = TRUE
    /\ dynamics_params = 0
    /\ frame = "none"
    /\ entropy = 0
    /\ expected_integral_costs = <<>>
    /\ expected_terminal_cost = 0
    /\ mve = NoMve
    /\ mode_var_exp = 0
    /\ prob_errors_sum = 0
    /\ euclidean_energy = 0
    /\ objective = 0
    /\ loss = 0
    /\ monitor = None
    /\ manager = None
    /\ compile_loss_fn = "missing"
    /\ returned = NoResult
    /\ handed = {}
    /\ iteration = 0
    /\ opt_trace = <<>>
    /\ optimisation_result = NoResult

\* no trajectory optimiser has been constructed
Init == BaseInit /\ self_policy = NoPolicy

\* TrajectoryOptimiser.__init__: an optimiser holding a policy and the
\* dynamics
OptimiserInit == BaseInit /\ self_policy \in Policies

Next ==
    \/ RC_Begin
    \/ RP_Begin
    \/ RolloutStep
    \/ set_desired_mode
    \/ call
    \/ Finish

Spec == Init /\ [][Next]_vars

\* a Python call that has started runs on: the interpreter takes the next
\* step of a rollout whenever there is one
RolloutNext ==
    \/ RC_Begin
    \/ RP_Begin
    \/ RolloutStep
    \/ Finish

FairSpec == Init /\ [][RolloutNext]_vars /\ WF_vars(RolloutStep)

\* the conditionals are pure functions of their arguments
CondNext ==
    \/ UC_Begin
    \/ UC_Check
    \/ UC_Kuu
    \/ UC_Moments
    \/ UC_Variance
    \/ BCC_Begin
    \/ BCC_AssertShapes
    \/ BCC_Compute
    \/ Finish

CondSpec == Init /\ [][CondNext]_vars

\* the four functions that factorise an inducing-point kernel matrix
KernelNext ==
    \/ UC_Begin
    \/ UC_Check
    \/ UC_Kuu
    \/ UC_Moments
    \/ UC_Variance
    \/ CC_Begin
    \/ CC_Kmm
    \/ CC_Base
    \/ BSC_Begin
    \/ BSC_Kzz
    \/ BSC_Project
    \/ BCS_Begin
    \/ BCS_Cholesky
    \/ Finish

KernelSpec == Init /\ [][KernelNext]_vars

\* the mode wrapper: switching the mode and scoring mode consistency
ModeNext ==
    \/ set_desired_mode
    \/ MVE_Begin
    \/ MVE_Gating
    \/ MVE_Target
    \/ MVE_Sum
    \/ MVE_Again
    \/ Finish

ModeSpec == Init /\ [][ModeNext]_vars

\* the steps of a policy rollout
PolicyRolloutStep ==
    \/ RP_Loop
    \/ CallDynamics
    \/ DynamicsReturns
    \/ DynamicsRaises
    \/ ConcatStep
    \/ RolloutReturn

\* the objective's caller takes its value (or the exception)
Obj_Finish == op = frame /\ Finish

\* evaluations of the objectives of the three trajectory optimisers
ObjNext ==
    \/ Obj_Begin
    \/ PolicyRolloutStep
    \/ Obj_RolloutReturned
    \/ Obj_RolloutRaised
    \/ Obj_Costs
    \/ Obj_Mode
    \/ Obj_Explore
    \/ Obj_Combine
    \/ Obj_Finish

ObjSpec == OptimiserInit /\ [][ObjNext]_vars

\* optimise calls on optimisers constructed with a short policy
OptInit == BaseInit /\ self_policy \in ShortPolicies

OptNext ==
    \/ Opt_Begin
    \/ Opt_SetTrainable
    \/ Opt_BuildLoss
    \/ Opt_Minimize
    \/ Min_Eval
    \/ Min_Callback
    \/ Min_Update
    \/ Min_Return
    \/ Opt_Return
    \/ Finish

OptSpec == OptInit /\ [][OptNext]_vars

\* ================================================================ claims
Rollouts == {"rollout_controls_in_dynamics", "rollout_policy_in_dynamics"}
Rolling == op \in Rollouts /\ pc \in {"loop", "call", "in_dynamics", "concat"}

\* the horizon as the caller sees it
H == IF op = "rollout_controls_in_dynamics" THEN Len(control_means)
     ELSE Len(policy.means)

\* the start variance as the caller sees it: zeros when omitted
StartVar == IF start_state_var = None THEN <<0>> ELSE <<start_state_var>>

EventsOf(kind) == {i \in DOMAIN calls : calls[i].kind = kind}

\* C1: a rollout over horizon H from a one-row start belief returns a mean
\* trajectory and a variance trajectory of exactly H+1 rows each; for H = 0
\* it returns the start belief.
C1_RolloutLength ==
    (op \in Rollouts /\ pc = "returned") =>
        /\ ~result.none
        /\ Len(start_state) = 1
        /\ Len(result.means) = H + 1
        /\ Len(result.vars) = H + 1
        /\ (H = 0 => result.means = start_state /\ result.vars = StartVar)

C1_Witness ==
    /\ op \in Rollouts
    /\ pc = "returned"
    /\ H >= 2
    /\ Len(result.means) = H + 1

\* C2: the dynamics call of step t >= 1 receives the mean and variance the
\* call of step t-1 returned, step 0 receives the start belief, and a call
\* is issued only when every earlier call has returned.
C2_SequentialDependency ==
    \A i \in EventsOf("dynamics") :
        LET earlierCalls == {j \in EventsOf("dynamics") : j < i}
            earlierReturns == {j \in EventsOf("returned") : j < i}
        IN /\ Cardinality(earlierCalls) = Cardinality(earlierReturns)
           /\ calls[i].t = Cardinality(earlierCalls)
           /\ IF calls[i].t = 0
              THEN /\ calls[i].sm = start_state[1]
                   /\ calls[i].sv = StartVar[1]
              ELSE \E j \in earlierReturns :
                      /\ \A k \in earlierReturns : k <= j
                      /\ calls[j].t = calls[i].t - 1
                      /\ calls[j].sm = calls[i].sm
                      /\ calls[j].sv = calls[i].sv

C2_Witness ==
    /\ op \in Rollouts
    /\ pc = "in_dynamics"
    /\ t >= 1
    /\ calls[Len(calls)].sm # start_state[1]
    /\ calls[Len(calls)].sv # StartVar[1]

\* what a finished rollout has called: H dynamics calls, all returned, and
\* for a policy rollout one policy query per index 0 .. H-1, in increasing
\* order, each directly before the dynamics call of that step
ExactlyHorizonCalls ==
    /\ Cardinality(EventsOf("dynamics")) = H
    /\ Cardinality(EventsOf("returned")) = H
    /\ op = "rollout_controls_in_dynamics" =>
          /\ Len(calls) = 2 * H
          /\ \A k \in 0 .. (H - 1) :
                calls[2 * k + 1].kind = "dynamics" /\ calls[2 * k + 1].t = k
    /\ op = "rollout_policy_in_dynamics" =>
          /\ Len(calls) = 3 * H
          /\ \A k \in 0 .. (H - 1) :
                /\ calls[3 * k + 1].kind = "policy"
                /\ calls[3 * k + 1].t = k
                /\ calls[3 * k + 2].kind = "dynamics"
                /\ calls[3 * k + 2].t = k
                /\ calls[3 * k + 2].cm = policy.means[k + 1]

\* C3: a rollout always terminates (it returns, or the exception of a
\* dynamics call leaves it), and when it returns the dynamics has been
\* called exactly H times and the policy queried once per index, in order,
\* each query directly before that step's dynamics call.
C3_Terminates ==
    /\ [](op \in Rollouts /\ pc = "returned" => ExactlyHorizonCalls)
    /\ (Rolling ~> (op \in Rollouts /\ pc \in {"returned", "raised"}))

C3_Witness ==
    /\ op = "rollout_policy_in_dynamics"
    /\ pc = "returned"
    /\ H >= 2
    /\ Cardinality(EventsOf("policy")) = H

IsPrefix(a, b) == Len(a) <= Len(b) /\ SubSeq(b, 1, Len(a)) = a

\* C4: while a rollout runs its trajectories only grow at the end: every
\* step leaves the rows already present, and the caller's start belief,
\* as they were.
C4_AppendOnly ==
    [][(op \in Rollouts /\ op' = op) =>
          /\ IsPrefix(state_means, state_means')
          /\ IsPrefix(state_vars, state_vars')
          /\ (pc = "concat" => /\ Len(state_means') = t + 2
                               /\ Len(state_vars') = t + 2)
          /\ start_state' = start_state
          /\ start_state_var' = start_state_var
          /\ state_means'[1] = start_state[1]]_vars

C4_Witness ==
    /\ op \in Rollouts
    /\ pc = "loop"
    /\ t >= 2
    /\ Len(state_means) = t + 1
    /\ state_means[2] # state_means[1]

ZeroVars(cms) == Tensor([i \in DOMAIN cms |-> 0])

C6_ModeIndexTooLarge ==
    /\ []((op = "set_desired_mode" /\ arg_mode >= NumExperts) =>
            /\ pc = "raised"
            /\ error = "AssertionError")
    /\ [](desired_mode < NumExperts)
    /\ [][(op' = "set_desired_mode" /\ op = "idle" /\ arg_mode' >= NumExperts) =>
            UNCHANGED modelVars]_vars

C6_Witness ==
    /\ op = "set_desired_mode"
    /\ arg_mode = NumExperts
    /\ pc = "raised"
    /\ error = "AssertionError"

\* C7: set_desired_mode rejects a negative index with an error and selects
\* no expert for it.
C7_NegativeModeRejected ==
    (op = "set_desired_mode" /\ arg_mode < 0) =>
        /\ pc = "raised"
        /\ error # ""

C9_FullCovNotImplemented ==
    op = "uncertain_conditional" =>
        /\ cond_args.full_cov =>
              /\ pc \in {"check", "raised"}
              /\ (pc = "raised" => error = "NotImplementedError")
              /\ cond_trace = <<>>
              /\ cond_out.none
        /\ ~cond_args.full_cov =>
              /\ error # "NotImplementedError"
              /\ (pc = "returned" =>
                    /\ ~cond_out.none
                    /\ cond_out.fmean = <<cond_args.N, cond_args.D>>
                    /\ Len(cond_out.fvar) = IF cond_args.full_output_cov THEN 3 ELSE 2)

C9_Witness ==
    /\ op = "uncertain_conditional"
    /\ pc = "raised"
    /\ error = "NotImplementedError"
    /\ cond_args.full_cov
    /\ ~cond_args.full_output_cov

\* the trailing dimensions agree: one M, N1, N2 and R fit every argument
DimsAgree(a) ==
    \E M \in Dims, N1 \in Dims, N2 \in Dims, R \in Dims :
        /\ a.Km1 = <<M, N1>>
        /\ a.Km2 = <<M, N2>>
        /\ a.Lm = <<M, M>>
        /\ a.K12 = <<N1, N2>>
        /\ a.f = <<M, R>>
        /\ \/ a.q_sqrt.none
           \/ a.q_sqrt.shape = <<M, R>>
           \/ a.q_sqrt.shape = <<R, M, M>>

\* C10: base_covariance_conditional raises, and returns no covariance,
\* whenever the trailing dimensions of its arguments disagree; no
\* disagreement is broadcast away.
C10_ShapeMismatchReported ==
    (op = "base_covariance_conditional" /\ ~DimsAgree(cond_args)) =>
        /\ pc \in {"assert_shapes", "raised"}
        /\ (pc = "raised" => error = "ValueError")
        /\ cond_out.none

C10_Witness ==
    /\ op = "base_covariance_conditional"
    /\ pc = "raised"
    /\ cond_args.K12[1] = 1
    /\ cond_args.Km1[2] = 2
    /\ DimsAgree([cond_args EXCEPT !.K12 = <<2, cond_args.K12[2]>>])

Scoring == op = "mode_variational_expectation"

C20_PseudoTargetIsDesiredMode ==
    (Scoring /\ pc \in {"sum", "returned"}) =>
        /\ Len(mve.gating_means) = Len(mve.sm)
        /\ Len(mve.Y) = Len(mve.gating_means)
        /\ \A i \in DOMAIN mve.Y : mve.Y[i] = desired_mode
        /\ (pc = "returned" =>
              /\ Len(mve.gating_var_exp) = Len(mve.Y)
              /\ \A i \in DOMAIN mve.Y :
                    mve.gating_var_exp[i] =
                        VariationalExpectations(mve.gating_means[i],
                                                mve.gating_vars[i], desired_mode)
              /\ mode_var_exp = ReduceSum(mve.gating_var_exp))

C20_Witness ==
    /\ Scoring
    /\ pc = "returned"
    /\ Len(mve.Y) >= 2
    /\ desired_mode = 0
    /\ \E i \in DOMAIN mve.gating_var_exp : mve.gating_var_exp[i] # 0
    /\ \E i \in DOMAIN mve.gating_var_exp : mve.gating_var_exp[i] # mode_var_exp

C15_ModeElboAddsModeTerm ==
    (op = ModeElbo /\ pc = "returned") =>
        objective =
            (0 - expected_terminal_cost - ReduceSum(expected_integral_costs)
               - entropy)
            + mode_var_exp

\* the loss ExplorativeTrajectoryOptimiser minimises, as a function of the
\* two terms of its blend
ExplorativeLossAt(energy, errors) == TrainingLoss(ExplorativeJ(energy, errors))

\* C16: the loss of ExplorativeTrajectoryOptimiser is determined by the
\* energy of consecutive input-mean differences and the summed squared
\* deviation of the mode probability from 0.7 alone, and is non-decreasing
\* in each of them.
C16_LossPenalisesBothTerms ==
    (op = Objective /\ pc = "returned") =>
        /\ loss = ExplorativeLossAt(euclidean_energy, prob_errors_sum)
        /\ \A e \in 0 .. euclidean_energy :
              ExplorativeLossAt(e, prob_errors_sum) <= loss
        /\ \A q \in 0 .. prob_errors_sum :
              ExplorativeLossAt(euclidean_energy, q) <= loss

\* C18: when the dynamics call of a rollout step raises, the rollout makes
\* no further policy or dynamics call and returns no trajectory, and the
\* same error leaves the objective: nothing catches it, nothing evaluates
\* the step again.
C18_ErrorAbortsEvaluation ==
    /\ []((frame \in Objectives /\ error = "InvalidArgumentError") =>
            /\ pc = "raised"
            /\ result.none
            /\ expected_integral_costs = <<>>
            /\ calls[Len(calls)].kind = "dynamics"
            /\ calls[Len(calls)].t = t
            /\ Cardinality(EventsOf("dynamics")) = t + 1
            /\ Len(state_means) = t + 1)
    /\ [][(frame \in Objectives /\ error # "") =>
            \/ /\ calls' = calls
               /\ error' = error
               /\ pc' = "raised"
               /\ op' = frame
            \/ op' = "idle"]_vars

C18_Witness ==
    /\ op \in Objectives
    /\ pc = "raised"
    /\ error = "InvalidArgumentError"
    /\ t >= 1
    /\ t < PolicyNumTimeSteps(self_policy)

Optimising == op = Optimise
InMinimize == Optimising /\ pc \in {"eval", "callback", "decide"}
CountOf(ev) == Cardinality({i \in DOMAIN opt_trace : opt_trace[i] = ev})

\* C11: in every optimise call the dynamics model is marked non-trainable
\* before minimize is invoked and before the loss is evaluated for the
\* first time.
C11_DynamicsFrozenFirst ==
    Optimising =>
        /\ \A i \in DOMAIN opt_trace :
              opt_trace[i] \in {"minimize", "loss"} =>
                  \E j \in 1 .. (i - 1) : opt_trace[j] = "set_trainable"
        /\ (InMinimize \/ pc \in {"minimize", "minimized", "returned"}) =>
              ~dynamics_trainable

C11_Witness ==
    /\ Optimising
    /\ pc = "decide"
    /\ iteration = 0
    /\ opt_trace = <<"set_trainable", "build_training_loss", "minimize", "loss">>

\* C12: the only variables optimise hands to the external optimiser are
\* the policy's, and the dynamics model's parameter values are never
\* changed by an optimise call.
C12_OnlyPolicyIsOptimised ==
    /\ [](Optimising =>
            /\ handed \subseteq {"policy"}
            /\ (InMinimize \/ pc \in {"minimized", "returned"}) =>
                  handed = {"policy"})
    /\ [][dynamics_params' = dynamics_params]_vars

C12_Witness ==
    /\ Optimising
    /\ pc = "returned"
    /\ returned.nit >= 2
    /\ CountOf("update") = returned.nit
    /\ handed = {"policy"}

\* C13: without a monitor and a manager the step callback does nothing;
\* otherwise every iteration of the optimiser calls monitor(step) once
\* exactly when a monitor is configured and manager.save() once exactly
\* when a manager is configured, the monitor before the save.
C13_CallbackCallsMonitorThenSave ==
    (Optimising /\ pc \in {"decide", "minimized", "returned"}) =>
        /\ CountOf("monitor") = (IF monitor # None THEN iteration ELSE 0)
        /\ CountOf("save") = (IF manager # None THEN iteration ELSE 0)
        /\ (monitor # None /\ manager # None) =>
              \A i \in DOMAIN opt_trace :
                  opt_trace[i] = "save" => (i > 1 /\ opt_trace[i - 1] = "monitor")

C13_Witness ==
    /\ Optimising
    /\ pc = "decide"
    /\ iteration >= 2
    /\ monitor # None
    /\ manager # None
    /\ CountOf("save") = iteration

\* C17: an optimise call invokes minimize at most once, exactly once when
\* it returns, and returns the result object of that call as it is,
\* converged or not.
C17_MinimizeOnceResultVerbatim ==
    Optimising =>
        /\ CountOf("minimize") <= 1
        /\ pc \in {"minimized", "returned"} =>
              /\ CountOf("minimize") = 1
              /\ ~optimisation_result.none
        /\ pc = "returned" => returned = optimisation_result

C17_Witness ==
    /\ Optimising
    /\ pc = "returned"
    /\ ~returned.none
    /\ ~returned.success
    /\ returned.nit >= 1

\* the input variance row of entry i when a state variance is supplied: an
\* omitted control variance contributes none
SuppliedInputVar(m, i) ==
    <<m.sv.rows[i], IF m.cv.none THEN 0 ELSE m.cv.rows[i]>>

\* C21: whenever a state variance is supplied, with or without a control
\* variance, the gating prediction scored by mode_variational_expectation is
\* the uncertain conditional's, which propagates that variance; the
\* likelihood's variational expectation is taken only after it.
C21_StateVarianceIsPropagated ==
    (Scoring /\ pc \in {"target", "sum", "returned"} /\ ~mve.sv.none) =>
        /\ \A i \in DOMAIN mve.sm :
              LET g == GatingUncertainConditional(<<mve.sm[i], mve.cm[i]>>,
                                                  SuppliedInputVar(mve, i))
              IN /\ mve.gating_means[i] = g.mean
                 /\ mve.gating_vars[i] = g.var
        /\ (pc # "returned" /\ mve.evaluations = 0) => mve.gating_var_exp = <<>>

\* the functions that build the inducing-point kernel matrix themselves,
\* and all that factorise one
KernelBuilders ==
    {"uncertain_conditional", "covariance_conditional", "base_svgp_conditional"}
Factorisers == KernelBuilders \cup {"base_conditional_split"}

\* operations that add the jitter: covariances.Kuu(..., jitter=...) and
\* Kzz += jitter * eye
JitterOps == {"Kuu", "add_jitter"}
JittersBefore(i) ==
    Cardinality({j \in 1 .. (i - 1) : cond_trace[j] \in JitterOps})
Factorisations == {i \in DOMAIN cond_trace : cond_trace[i] = "cholesky"}

\* C22: every Cholesky factorisation of the inducing-point kernel matrix in
\* uncertain_conditional, covariance_conditional, base_svgp_conditional and
\* base_conditional_split is of a matrix with one fixed jitter term added
\* exactly once (by the function that builds the matrix; the function that
\* is handed the matrix adds none), and no call factorises twice: a failed
\* factorisation is not retried.
C22_CholeskyAfterOneJitter ==
    (op \in Factorisers) =>
        /\ Cardinality(Factorisations) <= 1
        /\ \A i \in Factorisations :
              JittersBefore(i) = (IF op \in KernelBuilders THEN 1 ELSE 0)
        /\ (pc = "raised" /\ error = "InvalidArgumentError") =>
              cond_trace[Len(cond_trace)] = "cholesky"

\* C24: the covariance covariance_conditional returns is the one
\* base_covariance_conditional computes from Km1, Km2, Lm, K12 and q_sqrt:
\* it is the same for either value of `white` and for any content of f.
C24_CovarianceIgnoresWhiteAndF ==
    (op = "covariance_conditional" /\ pc = "returned") =>
        LET a == cond_args
        IN \A w \in BOOLEAN, fv \in Vals :
              cond_out.value =
                  BaseCovariance(Kernel(a.Z, a.X1), Kernel(a.Z, a.X2),
                                 Cholesky(Kernel(a.Z, a.Z)), Kernel(a.X1, a.X2),
                                 fv, a.q_sqrt, w)

C24_Witness ==
    /\ op = "covariance_conditional"
    /\ pc = "returned"
    /\ ~cond_args.white
    /\ cond_args.f = 1
    /\ cond_args.q_sqrt = 1
    /\ cond_args.X1 # cond_args.X2
    /\ cond_args.M = 2
    /\ cond_out.value.n # 0

\* C23: in every optimise call of an ExplorativeTrajectoryOptimiser the
\* loss function handed to minimize was built from the start_state of that
\* call, and every loss value the optimiser sees is the negated objective
\* rolled out from that start_state; a loss built by an earlier call is
\* not used again.
C23_LossBuiltForThisCall ==
    (Optimising /\ frame = Objective) =>
        /\ (pc \in {"minimize", "minimized", "returned"} \/ InMinimize) =>
              /\ ~training_loss.none
              /\ training_loss.rows = start_state
        /\ pc \in {"callback", "decide", "minimized", "returned"} =>
              loss = TrainingLoss(ObjectiveValue(Objective, self_policy,
                                                 start_state[1], None))

\* C25: when an optimise call has returned, or has been left by an error
\* raised inside minimize, the dynamics model is non-trainable, whatever it
\* was before the call; and once optimise has cleared the flag nothing in
\* it (nor the end of the call) sets it again.
C25_DynamicsStayFrozen ==
    /\ []((Optimising /\ (pc = "returned"
                          \/ (pc = "raised" /\ CountOf("minimize") = 1))) =>
            ~dynamics_trainable)
    /\ [][(~dynamics_trainable) => ~dynamics_trainable']_vars

C25_Witness ==
    /\ Optimising
    /\ pc = "raised"
    /\ error = "InvalidArgumentError"
    /\ iteration >= 1
    /\ CountOf("minimize") = 1
    /\ ~dynamics_trainable

====
